---- MODULE Spec2Model ----
(***************************************************************************)
(* A model of the two IPC servers of pi-topd.                              *)
(*                                                                         *)
(*   PublishServer  (src/pitopd/server/publish_server.py): caller threads  *)
(*     invoke start_listening, stop_listening, publish_* and assign        *)
(*     emit_messages; every statement that touches shared state is one     *)
(*     step of the calling thread.  Specification: PubSpec.                *)
(*                                                                         *)
(*   RequestServer  (src/src/ptdm_request_server.py): one controller       *)
(*     thread calls start_listening / stop_listening, the background       *)
(*     worker runs _thread_method.  Specification: ReqSpec.                *)
(*                                                                         *)
(* The two servers share nothing, so each specification moves only its own *)
(* variables.                                                              *)
(***************************************************************************)
EXTENDS Integers, Sequences, FiniteSets, TLC

\* ------------------------------------------------------------------ bounds
\* caller threads of one PublishServer
NumThreads == 2
\* zmq sockets one PublishServer creates (start_listening calls that get that far)
MaxPubSockets == 2

Threads == 1..NumThreads
PubSocketIds == 1..MaxPubSockets

\* ------------------------------------------------------------ PublishServer
VARIABLES
    emit_messages,      \* self.emit_messages
    socket_lock,        \* self._socket_lock: 0 when free, else the holding thread
    shutting_down,      \* self._shutting_down
    pub_zmq_socket,     \* self._zmq_socket: 0 for None, else a socket id
    pubSock,            \* the zmq PUB sockets created so far: id -> state
    ppc,                \* per thread: the statement it is at
    pmsg,               \* per thread: the message of the publish_* call in progress
    pubWire,            \* the last message written to the wire
    pubRaised,          \* the last exception a call raised to its caller
    pubStarted,         \* some start_listening call has returned True
    pubStopped          \* some stop_listening call has returned

pubVars == <<emit_messages, socket_lock, shutting_down, pub_zmq_socket, pubSock,
             ppc, pmsg, pubWire, pubRaised, pubStarted, pubStopped>>

\* ---- the state of the RequestServer
VARIABLES
    req_zmq_socket,     \* self._zmq_socket: 0 while the attribute is not set
    reqSock,            \* the zmq REP sockets created so far: id -> state
    repState,           \* per socket: "idle", "pending" (a request has arrived),
                        \*   "awaiting" (received, the reply is owed)
    inbox,              \* the request that arrived on the pending socket
    continue,           \* self._continue
    thread_started,     \* self._thread.start() has been called
    cpc,                \* the controller thread: the statement it is at
    cret,               \* how the controller's last completed call ended
    wpc,                \* the worker thread: the statement it is at
    workerExit,         \* why _thread_method ended: "none", "flag", "error"
    wsock,              \* the socket registered with the worker's poller
    request,            \* _thread_method's local: the request string
    response,           \* the message _process_request built
    cbCalls,            \* the CallbackClient invocations of that _process_request
    validated,          \* whether that _process_request called validate_parameters
    cbOutcome,          \* what the invoked callback did
    reqRecv,            \* requests taken off a socket by recv_string
    reqSent,            \* replies sent by send_string
    lastRecvSock,       \* the socket of the last recv_string
    lastSendSock        \* the socket of the last send_string that succeeded

reqVars == <<req_zmq_socket, reqSock, repState, inbox, continue, thread_started,
             cpc, cret, wpc, workerExit, wsock, request, response, cbCalls,
             validated, cbOutcome, reqRecv, reqSent, lastRecvSock, lastSendSock>>

ctlVars == <<cpc, cret>>
sockVars == <<req_zmq_socket, reqSock, repState, inbox>>
procVars == <<request, response, cbCalls, validated, cbOutcome>>
countVars == <<reqRecv, reqSent, lastRecvSock, lastSendSock>>

vars == <<pubVars, reqVars>>

NoSocket == 0
LockFree == 0

\* the publish_* methods modelled: one that calls _check_type on its
\* argument and one that takes an argument without checking it
PublishMethods ==
    {"publish_brightness_changed", "publish_oled_pi_controlled_state_changed"}
TypeCheckedMethods == {"publish_brightness_changed"}

\* PublishServer.__init__
PubInit ==
    /\ emit_messages = FALSE
    /\ socket_lock = LockFree
    /\ shutting_down = FALSE
    /\ pub_zmq_socket = NoSocket
    /\ pubSock = [s \in PubSocketIds |-> "absent"]
    /\ ppc = [t \in Threads |-> "idle"]
    /\ pmsg = [t \in Threads |-> "none"]
    /\ pubWire = "none"
    /\ pubRaised = "none"
    /\ pubStarted = FALSE
    /\ pubStopped = FALSE

PubGoto(t, l) == ppc' = [ppc EXCEPT ![t] = l]

\* the port 3781 is held by a socket of this server that is bound and not closed
PubPortHeld == \E s \in PubSocketIds : pubSock[s] = "bound"

\* ---- the daemon assigns publish_server.emit_messages
SetEmitMessages(t) ==
    /\ ppc[t] = "idle"
    /\ \E b \in BOOLEAN : emit_messages' = b
    /\ UNCHANGED <<socket_lock, shutting_down, pub_zmq_socket, pubSock, ppc, pmsg,
                   pubWire, pubRaised, pubStarted, pubStopped>>
    /\ UNCHANGED reqVars

\* ---- start_listening
PubStartCall(t) ==
    /\ ppc[t] = "idle"
    /\ Cardinality({s \in PubSocketIds : pubSock[s] = "absent"})
         > Cardinality({u \in Threads : ppc[u] \in {"start_acquire", "start_create"}})
    /\ PubGoto(t, "start_acquire")
    /\ UNCHANGED <<emit_messages, socket_lock, shutting_down, pub_zmq_socket, pubSock,
                   pmsg, pubWire, pubRaised, pubStarted, pubStopped>>
    /\ UNCHANGED reqVars

\* line 27
PubStartAcquire(t) ==
    /\ ppc[t] = "start_acquire"
    /\ socket_lock = LockFree
    /\ socket_lock' = t
    /\ PubGoto(t, "start_create")
    /\ UNCHANGED <<emit_messages, shutting_down, pub_zmq_socket, pubSock, pmsg,
                   pubWire, pubRaised, pubStarted, pubStopped>>
    /\ UNCHANGED reqVars

\* lines 29-30: a new context and socket replace the attributes
PubStartCreate(t) ==
    /\ ppc[t] = "start_create"
    /\ LET s == CHOOSE x \in PubSocketIds :
                   /\ pubSock[x] = "absent"
                   /\ \A y \in PubSocketIds : pubSock[y] = "absent" => x <= y
       IN  /\ pubSock' = [pubSock EXCEPT ![s] = "open"]
           /\ pub_zmq_socket' = s
    /\ PubGoto(t, "start_bind")
    /\ UNCHANGED <<emit_messages, socket_lock, shutting_down, pmsg,
                   pubWire, pubRaised, pubStarted, pubStopped>>
    /\ UNCHANGED reqVars

\* lines 31-40: bind, then return True; ZMQError (the port is taken, by this
\* server's earlier socket or by another process) is logged, return False
PubStartBind(t) ==
    /\ ppc[t] = "start_bind"
    /\ \/ /\ ~PubPortHeld
          /\ pubSock' = [pubSock EXCEPT ![pub_zmq_socket] = "bound"]
          /\ PubGoto(t, "start_return_true")
       \/ /\ PubGoto(t, "start_return_false")
          /\ UNCHANGED pubSock
    /\ UNCHANGED <<emit_messages, socket_lock, shutting_down, pub_zmq_socket, pmsg,
                   pubWire, pubRaised, pubStarted, pubStopped>>
    /\ UNCHANGED reqVars

\* line 43: the finally clause releases the lock, and the call returns
PubStartRelease(t) ==
    /\ ppc[t] \in {"start_return_true", "start_return_false"}
    /\ socket_lock' = LockFree
    /\ pubStarted' = (pubStarted \/ ppc[t] = "start_return_true")
    /\ PubGoto(t, "idle")
    /\ UNCHANGED <<emit_messages, shutting_down, pub_zmq_socket, pubSock, pmsg,
                   pubWire, pubRaised, pubStopped>>
    /\ UNCHANGED reqVars

\* ---- stop_listening
PubStopCall(t) ==
    /\ ppc[t] = "idle"
    /\ PubGoto(t, "stop_acquire")
    /\ UNCHANGED <<emit_messages, socket_lock, shutting_down, pub_zmq_socket, pubSock,
                   pmsg, pubWire, pubRaised, pubStarted, pubStopped>>
    /\ UNCHANGED reqVars

\* line 49
PubStopAcquire(t) ==
    /\ ppc[t] = "stop_acquire"
    /\ socket_lock = LockFree
    /\ socket_lock' = t
    /\ PubGoto(t, "stop_flag")
    /\ UNCHANGED <<emit_messages, shutting_down, pub_zmq_socket, pubSock, pmsg,
                   pubWire, pubRaised, pubStarted, pubStopped>>
    /\ UNCHANGED reqVars

\* line 50
PubStopFlag(t) ==
    /\ ppc[t] = "stop_flag"
    /\ shutting_down' = TRUE
    /\ PubGoto(t, "stop_close")
    /\ UNCHANGED <<emit_messages, socket_lock, pub_zmq_socket, pubSock, pmsg,
                   pubWire, pubRaised, pubStarted, pubStopped>>
    /\ UNCHANGED reqVars

\* Variant of PubStopClose: close() without the test for None; None.close()
\* raises AttributeError, which the except clause does not catch.
PubStopClose_NoNoneTest(t) ==
    /\ ppc[t] = "stop_close"
    /\ IF pub_zmq_socket # NoSocket
       THEN /\ pubSock' = [pubSock EXCEPT ![pub_zmq_socket] = "closed"]
            /\ UNCHANGED pubRaised
       ELSE /\ pubRaised' = "AttributeError"
            /\ UNCHANGED pubSock
    /\ PubGoto(t, "stop_release")
    /\ UNCHANGED <<emit_messages, socket_lock, shutting_down, pub_zmq_socket, pmsg,
                   pubWire, pubStarted, pubStopped>>
    /\ UNCHANGED reqVars

\* lines 52-54: socket.close() and context.destroy() when the socket is not
\* None; both do nothing on a closed socket
PubStopClose(t) ==
    /\ ppc[t] = "stop_close"
    /\ IF pub_zmq_socket # NoSocket
       THEN pubSock' = [pubSock EXCEPT ![pub_zmq_socket] = "closed"]
       ELSE UNCHANGED pubSock
    /\ PubGoto(t, "stop_release")
    /\ UNCHANGED <<emit_messages, socket_lock, shutting_down, pub_zmq_socket, pmsg,
                   pubWire, pubRaised, pubStarted, pubStopped>>
    /\ UNCHANGED reqVars

\* line 62
PubStopRelease(t) ==
    /\ ppc[t] = "stop_release"
    /\ socket_lock' = LockFree
    /\ pubStopped' = TRUE
    /\ PubGoto(t, "idle")
    /\ UNCHANGED <<emit_messages, shutting_down, pub_zmq_socket, pubSock, pmsg,
                   pubWire, pubRaised, pubStarted>>
    /\ UNCHANGED reqVars

\* ---- publish_*: _check_type on the arguments, then _send_message
PubMessageOf(method) ==
    CASE method = "publish_brightness_changed" -> "PUB_BRIGHTNESS_CHANGED"
      [] method = "publish_oled_pi_controlled_state_changed" ->
             "PUB_OLED_CONTROL_CHANGED"

\* what a caller passes as the argument: an int, a bool or a str
ArgTypes == {"int", "bool", "str"}

\* Variant of CheckTypeOk: every value passes the check.
CheckTypeOk_Always(argType) == TRUE

\* _check_type(var, int), lines 187-190: isinstance(var, int), which holds of
\* a bool as well
CheckTypeOk(argType) == argType \in {"int", "bool"}

\* a call of method by thread t with an argument of type argType
PublishCallWith(t, method, argType) ==
    /\ ppc[t] = "idle"
    /\ IF method \in TypeCheckedMethods /\ ~CheckTypeOk(argType)
       THEN /\ pubRaised' = "TypeError"
            /\ UNCHANGED <<ppc, pmsg>>
       ELSE /\ pmsg' = [pmsg EXCEPT ![t] = PubMessageOf(method)]
            /\ PubGoto(t, "send_check")
            /\ UNCHANGED pubRaised
    /\ UNCHANGED <<emit_messages, socket_lock, shutting_down, pub_zmq_socket, pubSock,
                   pubWire, pubStarted, pubStopped>>
    /\ UNCHANGED reqVars

PublishCall(t) ==
    \E method \in PublishMethods, argType \in ArgTypes :
        PublishCallWith(t, method, argType)

\* _send_message, lines 159-167: not ready or not emitting
PubSendCheck(t) ==
    /\ ppc[t] = "send_check"
    /\ IF pub_zmq_socket = NoSocket \/ ~emit_messages
       THEN /\ PubGoto(t, "idle")
            /\ pmsg' = [pmsg EXCEPT ![t] = "none"]
       ELSE /\ PubGoto(t, "send_acquire")
            /\ UNCHANGED pmsg
    /\ UNCHANGED <<emit_messages, socket_lock, shutting_down, pub_zmq_socket, pubSock,
                   pubWire, pubRaised, pubStarted, pubStopped>>
    /\ UNCHANGED reqVars

\* Variant of PubSendAcquire: the write is entered without waiting for the
\* lock.
PubSendAcquire_NoLock(t) ==
    /\ ppc[t] = "send_acquire"
    /\ socket_lock' = t
    /\ PubGoto(t, "send_shutdown_check")
    /\ UNCHANGED <<emit_messages, shutting_down, pub_zmq_socket, pubSock, pmsg,
                   pubWire, pubRaised, pubStarted, pubStopped>>
    /\ UNCHANGED reqVars

\* line 173
PubSendAcquire(t) ==
    /\ ppc[t] = "send_acquire"
    /\ socket_lock = LockFree
    /\ socket_lock' = t
    /\ PubGoto(t, "send_shutdown_check")
    /\ UNCHANGED <<emit_messages, shutting_down, pub_zmq_socket, pubSock, pmsg,
                   pubWire, pubRaised, pubStarted, pubStopped>>
    /\ UNCHANGED reqVars

\* Variant of PubSendShutdownCheck: shutting_down is not looked at again under
\* the lock.
PubSendShutdownCheck_NoRecheck(t) ==
    /\ ppc[t] = "send_shutdown_check"
    /\ PubGoto(t, "in_send_string")
    /\ UNCHANGED <<emit_messages, socket_lock, shutting_down, pub_zmq_socket, pubSock,
                   pmsg, pubWire, pubRaised, pubStarted, pubStopped>>
    /\ UNCHANGED reqVars

\* lines 174-177: return when shutting down, else send_string is entered;
\* the write is in progress until PubSendStringEnd
PubSendShutdownCheck(t) ==
    /\ ppc[t] = "send_shutdown_check"
    /\ IF shutting_down
       THEN PubGoto(t, "send_release")
       ELSE PubGoto(t, "in_send_string")
    /\ UNCHANGED <<emit_messages, socket_lock, shutting_down, pub_zmq_socket, pubSock,
                   pmsg, pubWire, pubRaised, pubStarted, pubStopped>>
    /\ UNCHANGED reqVars

\* line 177: send_string returns, the message is on the wire; or it raises
\* ZMQError and the except clause (lines 180-182) is entered
PubSendStringEnd(t) ==
    /\ ppc[t] = "in_send_string"
    /\ \/ /\ pubWire' = pmsg[t]
          /\ PubGoto(t, "send_release")
       \/ /\ UNCHANGED pubWire
          /\ PubGoto(t, "send_except")
    /\ UNCHANGED <<emit_messages, socket_lock, shutting_down, pub_zmq_socket, pubSock,
                   pmsg, pubRaised, pubStarted, pubStopped>>
    /\ UNCHANGED reqVars

\* Variant of PubSendExcept: the lock is not released on the way out of a
\* failed write, and the error reaches the caller.
PubSendExcept_NoFinally(t) ==
    /\ ppc[t] = "send_except"
    /\ PubGoto(t, "idle")
    /\ pubRaised' = "ZMQError"
    /\ UNCHANGED <<emit_messages, socket_lock, shutting_down, pub_zmq_socket, pubSock,
                   pmsg, pubWire, pubStarted, pubStopped>>
    /\ UNCHANGED reqVars

\* lines 180-182: the error is logged
PubSendExcept(t) ==
    /\ ppc[t] = "send_except"
    /\ PubGoto(t, "send_release")
    /\ UNCHANGED <<emit_messages, socket_lock, shutting_down, pub_zmq_socket, pubSock,
                   pmsg, pubWire, pubRaised, pubStarted, pubStopped>>
    /\ UNCHANGED reqVars

\* line 185: the finally clause releases the lock, and the call returns
PubSendRelease(t) ==
    /\ ppc[t] = "send_release"
    /\ socket_lock' = LockFree
    /\ PubGoto(t, "idle")
    /\ pmsg' = [pmsg EXCEPT ![t] = "none"]
    /\ UNCHANGED <<emit_messages, shutting_down, pub_zmq_socket, pubSock,
                   pubWire, pubRaised, pubStarted, pubStopped>>
    /\ UNCHANGED reqVars

PubNext ==
    \E t \in Threads :
        \/ SetEmitMessages(t)
        \/ PubStartCall(t) \/ PubStartAcquire(t) \/ PubStartCreate(t)
        \/ PubStartBind(t) \/ PubStartRelease(t)
        \/ PubStopCall(t) \/ PubStopAcquire(t) \/ PubStopFlag(t)
        \/ PubStopClose(t) \/ PubStopRelease(t)
        \/ PublishCall(t) \/ PubSendCheck(t) \/ PubSendAcquire(t)
        \/ PubSendShutdownCheck(t)
        \/ PubSendStringEnd(t) \/ PubSendExcept(t) \/ PubSendRelease(t)

\* ------------------------------------------------------------ the messages
\* A wire string is the sequence of its "|"-separated tokens.  A message id
\* is written by its name; "9999" is a number that names no message, "abc"
\* and "" are not numbers.
MaxParams == 2

RequestIds ==
    {"REQ_PING", "REQ_GET_DEVICE_ID", "REQ_GET_BRIGHTNESS", "REQ_SET_BRIGHTNESS",
     "REQ_INCREMENT_BRIGHTNESS", "REQ_DECREMENT_BRIGHTNESS", "REQ_BLANK_SCREEN",
     "REQ_UNBLANK_SCREEN", "REQ_GET_BATTERY_STATE", "REQ_GET_PERIPHERAL_ENABLED",
     "REQ_GET_SCREEN_BLANKING_TIMEOUT", "REQ_SET_SCREEN_BLANKING_TIMEOUT"}
OtherIds == {"RSP_PING", "9999"}
ParamNumerals == {"50", "7"}
NonNumerals == {"abc", ""}
HeadTokens == RequestIds \cup OtherIds \cup NonNumerals
ParamTokens == ParamNumerals \cup {"abc"}

IsNumeral(tok) == tok \notin NonNumerals

\* int(tok) of a parameter numeral
IntOf(tok) == IF tok = "50" THEN 50 ELSE 7

ParamSeqs == UNION {[1..n -> ParamTokens] : n \in 0..MaxParams}
\* the request strings a client sends
RequestStrings == {<<h>> \o ps : h \in HeadTokens, ps \in ParamSeqs}

\* Message.from_string: ValueError unless the first token is a number
FromStringFails(str) == ~IsNumeral(Head(str))
MessageId(str) == Head(str)
Parameters(str) == Tail(str)

\* Message.validate_parameters: the count first, then each int parameter
ValidateParametersOk(params, expected) ==
    /\ Len(params) = Len(expected)
    /\ \A i \in 1..Len(expected) : expected[i] = "int" => IsNumeral(params[i])

\* Message.from_parts
FromParts(id, params) == [id |-> id, params |-> params]

\* ------------------------------------------------------------ RequestServer
\* Variant of Schema: no branch asks for an int parameter.
Schema_NoIntParams(id) == <<>>

\* _process_request, lines 83-177: the branch of each request id: the types
\* it hands to validate_parameters, the CallbackClient method it invokes
\* and the response id it builds on success
Schema(id) ==
    IF id \in {"REQ_SET_BRIGHTNESS", "REQ_GET_PERIPHERAL_ENABLED",
               "REQ_SET_SCREEN_BLANKING_TIMEOUT"}
    THEN <<"int">> ELSE <<>>

CallbackOf(id) ==
    CASE id = "REQ_PING" -> "none"
      [] id = "REQ_GET_DEVICE_ID" -> "_on_request_get_device_id"
      [] id = "REQ_GET_BRIGHTNESS" -> "_on_request_get_brightness"
      [] id = "REQ_SET_BRIGHTNESS" -> "_on_request_set_brightness"
      [] id = "REQ_INCREMENT_BRIGHTNESS" -> "_on_request_increment_brightness"
      [] id = "REQ_DECREMENT_BRIGHTNESS" -> "_on_request_decrement_brightness"
      [] id = "REQ_BLANK_SCREEN" -> "_on_request_blank_screen"
      [] id = "REQ_UNBLANK_SCREEN" -> "_on_request_unblank_screen"
      [] id = "REQ_GET_BATTERY_STATE" -> "_on_request_battery_state"
      [] id = "REQ_GET_PERIPHERAL_ENABLED" -> "_on_request_get_peripheral_enabled"
      [] id = "REQ_GET_SCREEN_BLANKING_TIMEOUT" ->
             "_on_request_get_screen_blanking_timeout"
      [] id = "REQ_SET_SCREEN_BLANKING_TIMEOUT" ->
             "_on_request_set_screen_blanking_timeout"

ResponseIdOf(id) ==
    CASE id = "REQ_PING" -> "RSP_PING"
      [] id = "REQ_GET_DEVICE_ID" -> "RSP_GET_DEVICE_ID"
      [] id = "REQ_GET_BRIGHTNESS" -> "RSP_GET_BRIGHTNESS"
      [] id = "REQ_SET_BRIGHTNESS" -> "RSP_SET_BRIGHTNESS"
      [] id = "REQ_INCREMENT_BRIGHTNESS" -> "RSP_INCREMENT_BRIGHTNESS"
      [] id = "REQ_DECREMENT_BRIGHTNESS" -> "RSP_DECREMENT_BRIGHTNESS"
      [] id = "REQ_BLANK_SCREEN" -> "RSP_BLANK_SCREEN"
      [] id = "REQ_UNBLANK_SCREEN" -> "RSP_UNBLANK_SCREEN"
      [] id = "REQ_GET_BATTERY_STATE" -> "RSP_GET_BATTERY_STATE"
      [] id = "REQ_GET_PERIPHERAL_ENABLED" -> "RSP_GET_PERIPHERAL_ENABLED"
      [] id = "REQ_GET_SCREEN_BLANKING_TIMEOUT" -> "RSP_GET_SCREEN_BLANKING_TIMEOUT"
      [] id = "REQ_SET_SCREEN_BLANKING_TIMEOUT" -> "RSP_SET_SCREEN_BLANKING_TIMEOUT"

\* What a CallbackClient method does when invoked: it raises (kind "raise",
\* shape the exception class) or returns (kind "return"): None, one int
\* ("scalar"), a tuple of ints, True or False.
Raises == {[kind |-> "raise", shape |-> e, vals |-> <<>>] :
               e \in {"ValueError", "Exception"}}
Returns(shape, vals) == [kind |-> "return", shape |-> shape, vals |-> vals]
NoOutcome == Returns("none", <<>>)

CallbackOutcomes(cb) ==
    CASE cb = "none" -> {NoOutcome}
      [] cb \in {"_on_request_get_device_id", "_on_request_get_brightness",
                 "_on_request_get_screen_blanking_timeout"} ->
             Raises \cup {Returns("scalar", <<7>>)}
      [] cb = "_on_request_battery_state" ->
             Raises \cup {Returns("tuple", <<1, 80, 120, 15>>),
                          Returns("tuple", <<1, 80, 120>>),
                          Returns("scalar", <<7>>), Returns("none", <<>>)}
      [] cb = "_on_request_get_peripheral_enabled" ->
             Raises \cup {Returns("true", <<>>), Returns("false", <<>>),
                          Returns("scalar", <<1>>)}
      [] OTHER -> Raises \cup {NoOutcome}

\* the except clauses, lines 184-194: the response of an exception class
ExceptionResponse(exc) ==
    IF exc = "ValueError"
    THEN FromParts("RSP_ERR_MALFORMED", <<>>)
    ELSE FromParts("RSP_ERR_SERVER", <<>>)

\* what the branch does with the value the callback returned: the response,
\* or the exception the statement raises
\*   line 149: unpacking into four names raises ValueError on a tuple of
\*             another length, TypeError on a value that is no iterable
\*   line 159: int(enabled_bool is True)
WrapReturn(id, o) ==
    CASE id = "REQ_GET_BATTERY_STATE" ->
             IF o.shape = "tuple"
             THEN IF Len(o.vals) = 4
                  THEN FromParts(ResponseIdOf(id), o.vals)
                  ELSE ExceptionResponse("ValueError")
             ELSE ExceptionResponse("TypeError")
      [] id = "REQ_GET_PERIPHERAL_ENABLED" ->
             FromParts(ResponseIdOf(id), <<IF o.shape = "true" THEN 1 ELSE 0>>)
      [] id \in {"REQ_GET_DEVICE_ID", "REQ_GET_BRIGHTNESS",
                 "REQ_GET_SCREEN_BLANKING_TIMEOUT"} ->
             FromParts(ResponseIdOf(id), o.vals)
      [] OTHER -> FromParts(ResponseIdOf(id), <<>>)

\* Variant of CallArgs: the callback is invoked without the request's
\* parameter.
CallArgs_Dropped(id, params) == <<>>

\* the arguments the branch passes to the callback
CallArgs(id, params) ==
    IF Schema(id) = <<"int">> THEN <<IntOf(params[1])>> ELSE <<>>

ProcessResult(rsp, calls, valid) ==
    [response |-> rsp, calls |-> calls, validated |-> valid]

\* Variant of ProcessRequest: the parameters are validated, against an empty
\* schema, before the id is looked up.
ProcessRequest_ValidateFirst(str, o) ==
    IF FromStringFails(str)
    THEN ProcessResult(ExceptionResponse("ValueError"), <<>>, FALSE)
    ELSE LET id == MessageId(str)
             params == Parameters(str)
             expected == IF id \in RequestIds THEN Schema(id) ELSE <<>>
         IN  IF ~ValidateParametersOk(params, expected)
             THEN ProcessResult(ExceptionResponse("ValueError"), <<>>, TRUE)
             ELSE IF id \notin RequestIds
             THEN ProcessResult(FromParts("RSP_ERR_UNSUPPORTED", <<>>), <<>>, TRUE)
             ELSE IF CallbackOf(id) = "none"
             THEN ProcessResult(FromParts(ResponseIdOf(id), <<>>), <<>>, TRUE)
             ELSE LET call == [name |-> CallbackOf(id), args |-> CallArgs(id, params)]
                  IN  IF o.kind = "raise"
                      THEN ProcessResult(ExceptionResponse(o.shape), <<call>>, TRUE)
                      ELSE ProcessResult(WrapReturn(id, o), <<call>>, TRUE)

\* _process_request(request), with o the behaviour of the callback it
\* invokes: the response, the callback invocations made, and whether
\* validate_parameters was called
ProcessRequest(str, o) ==
    IF FromStringFails(str)
    THEN ProcessResult(ExceptionResponse("ValueError"), <<>>, FALSE)
    ELSE LET id == MessageId(str)
             params == Parameters(str)
         IN  IF id \notin RequestIds
             THEN ProcessResult(FromParts("RSP_ERR_UNSUPPORTED", <<>>), <<>>, FALSE)
             ELSE IF ~ValidateParametersOk(params, Schema(id))
             THEN ProcessResult(ExceptionResponse("ValueError"), <<>>, TRUE)
             ELSE IF CallbackOf(id) = "none"
             THEN ProcessResult(FromParts(ResponseIdOf(id), <<>>), <<>>, TRUE)
             ELSE LET call == [name |-> CallbackOf(id), args |-> CallArgs(id, params)]
                  IN  IF o.kind = "raise"
                      THEN ProcessResult(ExceptionResponse(o.shape), <<call>>, TRUE)
                      ELSE ProcessResult(WrapReturn(id, o), <<call>>, TRUE)

\* the callback behaviours _process_request(str) can meet
OutcomesFor(str) ==
    IF FromStringFails(str) \/ MessageId(str) \notin RequestIds
       \/ ~ValidateParametersOk(Parameters(str), Schema(MessageId(str)))
    THEN {NoOutcome}
    ELSE CallbackOutcomes(CallbackOf(MessageId(str)))

\* zmq sockets one RequestServer creates
MaxReqSockets == 2
\* requests clients send in one behaviour
MaxRequests == 2

ReqSocketIds == 1..MaxReqSockets

\* a request whose bytes are not UTF-8: recv_string raises UnicodeDecodeError
BadUtf8 == <<"\\xff">>
NoRequest == <<>>
NoResponse == FromParts("none", <<>>)


\* RequestServer.__init__ and initialise
ReqInit ==
    /\ req_zmq_socket = NoSocket
    /\ reqSock = [s \in ReqSocketIds |-> "absent"]
    /\ repState = [s \in ReqSocketIds |-> "idle"]
    /\ inbox = NoRequest
    /\ continue = FALSE
    /\ thread_started = FALSE
    /\ cpc = "idle"
    /\ cret = "none"
    /\ wpc = "not_started"
    /\ workerExit = "none"
    /\ wsock = NoSocket
    /\ request = NoRequest
    /\ response = NoResponse
    /\ cbCalls = <<>>
    /\ validated = FALSE
    /\ cbOutcome = NoOutcome
    /\ reqRecv = 0
    /\ reqSent = 0
    /\ lastRecvSock = NoSocket
    /\ lastSendSock = NoSocket

Init == PubInit /\ ReqInit

\* Thread.is_alive()
WorkerAlive == wpc \notin {"not_started", "exited"}

\* the port 3782 is held by a socket of this server that is bound and not closed
ReqPortHeld == \E s \in ReqSocketIds : reqSock[s] = "bound"

\* ---- start_listening
ReqStartCall ==
    /\ cpc = "idle"
    /\ \E s \in ReqSocketIds : reqSock[s] = "absent"
    /\ cpc' = "start_create"
    /\ UNCHANGED <<sockVars, continue, thread_started, cret, wpc, workerExit, wsock,
                   procVars, countVars>>
    /\ UNCHANGED pubVars

\* lines 26-27: a new context and socket replace the attributes
ReqStartCreate ==
    /\ cpc = "start_create"
    /\ LET s == CHOOSE x \in ReqSocketIds :
                   /\ reqSock[x] = "absent"
                   /\ \A y \in ReqSocketIds : reqSock[y] = "absent" => x <= y
       IN  /\ reqSock' = [reqSock EXCEPT ![s] = "open"]
           /\ req_zmq_socket' = s
    /\ cpc' = "start_bind"
    /\ UNCHANGED <<repState, inbox, continue, thread_started, cret, wpc, workerExit,
                   wsock, procVars, countVars>>
    /\ UNCHANGED pubVars

\* Variant of ReqStartBind: after the failed bind is logged the call goes on
\* instead of returning.
ReqStartBind_NoReturn ==
    /\ cpc = "start_bind"
    /\ \/ /\ ~ReqPortHeld
          /\ reqSock' = [reqSock EXCEPT ![req_zmq_socket] = "bound"]
       \/ UNCHANGED reqSock
    /\ cpc' = "start_flag"
    /\ UNCHANGED <<req_zmq_socket, repState, inbox, continue, thread_started, cret,
                   wpc, workerExit, wsock, procVars, countVars>>
    /\ UNCHANGED pubVars

\* line 28: bind; ZMQError (port taken by this server's earlier socket or by
\* another process) is logged and start_listening returns
ReqStartBind ==
    /\ cpc = "start_bind"
    /\ \/ /\ ~ReqPortHeld
          /\ reqSock' = [reqSock EXCEPT ![req_zmq_socket] = "bound"]
          /\ cpc' = "start_flag"
          /\ UNCHANGED cret
       \/ /\ cpc' = "idle"
          /\ cret' = "start:returned"
          /\ UNCHANGED reqSock
    /\ UNCHANGED <<req_zmq_socket, repState, inbox, continue, thread_started, wpc,
                   workerExit, wsock, procVars, countVars>>
    /\ UNCHANGED pubVars

\* lines 36-38: sleep, then self._continue = True
ReqStartFlag ==
    /\ cpc = "start_flag"
    /\ continue' = TRUE
    /\ cpc' = "start_thread"
    /\ UNCHANGED <<sockVars, thread_started, cret, wpc, workerExit, wsock,
                   procVars, countVars>>
    /\ UNCHANGED pubVars

\* line 39: Thread.start() raises RuntimeError on a thread started before
ReqStartThread ==
    /\ cpc = "start_thread"
    /\ IF thread_started
       THEN /\ cret' = "start:RuntimeError"
            /\ UNCHANGED <<thread_started, wpc>>
       ELSE /\ thread_started' = TRUE
            /\ wpc' = "while"
            /\ cret' = "start:returned"
    /\ cpc' = "idle"
    /\ UNCHANGED <<sockVars, continue, workerExit, wsock, procVars, countVars>>
    /\ UNCHANGED pubVars

\* ---- stop_listening
ReqStopCall ==
    /\ cpc = "idle"
    /\ cpc' = "stop_flag"
    /\ UNCHANGED <<sockVars, continue, thread_started, cret, wpc, workerExit, wsock,
                   procVars, countVars>>
    /\ UNCHANGED pubVars

\* line 45
ReqStopFlag ==
    /\ cpc = "stop_flag"
    /\ continue' = FALSE
    /\ cpc' = "stop_join"
    /\ UNCHANGED <<sockVars, thread_started, cret, wpc, workerExit, wsock,
                   procVars, countVars>>
    /\ UNCHANGED pubVars

\* Variant of ReqStopJoin: the worker is not joined.
ReqStopJoin_NoJoin ==
    /\ cpc = "stop_join"
    /\ cpc' = "stop_close"
    /\ UNCHANGED <<sockVars, continue, thread_started, cret, wpc, workerExit, wsock,
                   procVars, countVars>>
    /\ UNCHANGED pubVars

\* Variant of ReqStopJoin: join() without the is_alive() test; join raises
\* RuntimeError on a thread that was never started.
ReqStopJoin_AlwaysJoin ==
    /\ cpc = "stop_join"
    /\ IF thread_started
       THEN /\ ~WorkerAlive
            /\ cpc' = "stop_close"
            /\ UNCHANGED cret
       ELSE /\ cpc' = "idle"
            /\ cret' = "stop:RuntimeError"
    /\ UNCHANGED <<sockVars, continue, thread_started, wpc, workerExit, wsock,
                   procVars, countVars>>
    /\ UNCHANGED pubVars

\* lines 46-47: past the join once the worker is not alive
ReqStopJoin ==
    /\ cpc = "stop_join"
    /\ ~WorkerAlive
    /\ cpc' = "stop_close"
    /\ UNCHANGED <<sockVars, continue, thread_started, cret, wpc, workerExit, wsock,
                   procVars, countVars>>
    /\ UNCHANGED pubVars

\* lines 49-50: AttributeError when start_listening never set the attribute;
\* close() and destroy() do nothing on a closed socket
ReqStopClose ==
    /\ cpc = "stop_close"
    /\ IF req_zmq_socket = NoSocket
       THEN /\ cret' = "stop:AttributeError"
            /\ UNCHANGED <<reqSock, repState>>
       ELSE /\ reqSock' = [reqSock EXCEPT ![req_zmq_socket] = "closed"]
            /\ repState' = [repState EXCEPT ![req_zmq_socket] = "idle"]
            /\ cret' = "stop:returned"
    /\ cpc' = "idle"
    /\ UNCHANGED <<req_zmq_socket, inbox, continue, thread_started, wpc, workerExit,
                   wsock, procVars, countVars>>
    /\ UNCHANGED pubVars

\* ---- _thread_method
WorkerExits(why) ==
    /\ wpc' = "exited"
    /\ workerExit' = why

\* line 58: while self._continue
WorkerWhile ==
    /\ wpc = "while"
    /\ IF continue
       THEN /\ wpc' = "register"
            /\ UNCHANGED workerExit
       ELSE WorkerExits("flag")
    /\ UNCHANGED <<sockVars, continue, thread_started, ctlVars, wsock, procVars,
                   countVars>>
    /\ UNCHANGED pubVars

\* lines 60-61: a new poller on the socket the attribute names now
WorkerRegister ==
    /\ wpc = "register"
    /\ wsock' = req_zmq_socket
    /\ wpc' = "poll"
    /\ UNCHANGED <<sockVars, continue, thread_started, ctlVars, workerExit, procVars,
                   countVars>>
    /\ UNCHANGED pubVars

\* lines 63-65: poll(500) times out, or a client's request has arrived on the
\* registered socket (a REP socket takes a request only when it owes no reply)
WorkerPoll ==
    /\ wpc = "poll"
    /\ \/ /\ wpc' = "while"
          /\ UNCHANGED <<repState, inbox>>
       \/ /\ reqSock[wsock] = "bound"
          /\ repState[wsock] = "idle"
          /\ reqRecv < MaxRequests
          /\ \E str \in RequestStrings \cup {BadUtf8} : inbox' = str
          /\ repState' = [repState EXCEPT ![wsock] = "pending"]
          /\ wpc' = "recv"
    /\ UNCHANGED <<req_zmq_socket, reqSock, continue, thread_started, ctlVars,
                   workerExit, wsock, procVars, countVars>>
    /\ UNCHANGED pubVars

\* line 67: recv_string on the socket the attribute names now; it blocks
\* while that socket holds no request, and raises UnicodeDecodeError on
\* bytes that are not UTF-8, which ends the thread
WorkerRecv ==
    /\ wpc = "recv"
    /\ repState[req_zmq_socket] = "pending"
    /\ repState' = [repState EXCEPT ![req_zmq_socket] = "awaiting"]
    /\ reqRecv' = reqRecv + 1
    /\ lastRecvSock' = req_zmq_socket
    /\ IF inbox = BadUtf8
       THEN /\ WorkerExits("error")
            /\ UNCHANGED request
       ELSE /\ request' = inbox
            /\ wpc' = "process"
            /\ UNCHANGED workerExit
    /\ UNCHANGED <<req_zmq_socket, reqSock, inbox, continue, thread_started, ctlVars,
                   wsock, response, cbCalls, validated, cbOutcome, reqSent,
                   lastSendSock>>
    /\ UNCHANGED pubVars

\* Variant of WorkerProcess: an error response is dropped and the worker
\* goes back to wait without sending it.
WorkerProcess_NoReplyOnError ==
    /\ wpc = "process"
    /\ \E o \in OutcomesFor(request) :
          LET r == ProcessRequest(request, o)
          IN  /\ response' = r.response
              /\ cbCalls' = r.calls
              /\ validated' = r.validated
              /\ cbOutcome' = o
              /\ wpc' = IF r.response.id \in {"RSP_ERR_MALFORMED", "RSP_ERR_UNSUPPORTED",
                                              "RSP_ERR_SERVER"}
                        THEN "while" ELSE "send"
    /\ UNCHANGED <<sockVars, continue, thread_started, ctlVars, workerExit, wsock,
                   request, countVars>>
    /\ UNCHANGED pubVars

\* line 70: response = self._process_request(request)
WorkerProcess ==
    /\ wpc = "process"
    /\ \E o \in OutcomesFor(request) :
          LET r == ProcessRequest(request, o)
          IN  /\ response' = r.response
              /\ cbCalls' = r.calls
              /\ validated' = r.validated
              /\ cbOutcome' = o
    /\ wpc' = "send"
    /\ UNCHANGED <<sockVars, continue, thread_started, ctlVars, workerExit, wsock,
                   request, countVars>>
    /\ UNCHANGED pubVars

\* line 73: send_string on the socket the attribute names now; a REP socket
\* that owes no reply raises ZMQError, which ends the thread.  The locals
\* request and response are dead from here to their next assignment, so
\* they are reset: states that differ only in dead values coincide.
WorkerSend ==
    /\ wpc = "send"
    /\ IF reqSock[req_zmq_socket] = "bound" /\ repState[req_zmq_socket] = "awaiting"
       THEN /\ repState' = [repState EXCEPT ![req_zmq_socket] = "idle"]
            /\ reqSent' = reqSent + 1
            /\ lastSendSock' = req_zmq_socket
            /\ inbox' = NoRequest
            /\ wpc' = "while"
            /\ UNCHANGED workerExit
       ELSE /\ WorkerExits("error")
            /\ UNCHANGED <<repState, inbox, reqSent, lastSendSock>>
    /\ request' = NoRequest
    /\ response' = NoResponse
    /\ cbCalls' = <<>>
    /\ validated' = FALSE
    /\ cbOutcome' = NoOutcome
    /\ UNCHANGED <<req_zmq_socket, reqSock, continue, thread_started, ctlVars,
                   wsock, reqRecv, lastRecvSock>>
    /\ UNCHANGED pubVars

ReqNext ==
    \/ ReqStartCall \/ ReqStartCreate \/ ReqStartBind \/ ReqStartFlag
    \/ ReqStartThread
    \/ ReqStopCall \/ ReqStopFlag \/ ReqStopJoin \/ ReqStopClose
    \/ WorkerWhile \/ WorkerRegister \/ WorkerPoll \/ WorkerRecv
    \/ WorkerProcess \/ WorkerSend

\* the steps of the worker thread, and the steps inside a stop_listening call
WorkerNext ==
    \/ WorkerWhile \/ WorkerRegister \/ WorkerPoll \/ WorkerRecv
    \/ WorkerProcess \/ WorkerSend
ReqStopNext == ReqStopFlag \/ ReqStopJoin \/ ReqStopClose

\* ------------------------------------------------------------ specifications
PubSpec == Init /\ [][PubNext]_vars
ReqSpec == Init /\ [][ReqNext]_vars

\* The worker is a thread of its own and the caller of stop_listening keeps
\* running: each takes its next step when it has one.  poll(500) returns
\* within the timeout and send_string returns; a recv_string on a socket
\* that holds no request is not enabled, so fairness does not force it.
ReqFairSpec ==
    /\ ReqSpec
    /\ WF_vars(WorkerNext)
    /\ WF_vars(ReqStopNext)

\* ------------------------------------------------------------------ claims
ErrorResponseIds == {"RSP_ERR_MALFORMED", "RSP_ERR_UNSUPPORTED", "RSP_ERR_SERVER"}

\* C1: the worker's transport events alternate recv, send, recv, send: the
\* worker is back at waiting or receiving only when every request received
\* has had its reply, a reply is owed exactly while a request is being
\* processed or sent, there is never a send without a preceding recv, and a
\* reply goes out on the socket its request came in on.
C1_RecvSendAlternate ==
    /\ reqSent <= reqRecv
    /\ reqRecv <= reqSent + 1
    /\ wpc \in {"while", "register", "poll", "recv"} => reqRecv = reqSent
    /\ wpc \in {"process", "send"} => reqRecv = reqSent + 1
    /\ (reqSent > 0 /\ reqRecv = reqSent) => lastSendSock = lastRecvSock

\* after one complete exchange, a second request, whose callback raised, is
\* about to be answered RSP_ERR_SERVER
C1_Witness ==
    /\ reqSent = 1
    /\ wpc = "send"
    /\ response.id = "RSP_ERR_SERVER"

\* C2: at most one thread at a time is inside send_string, and it holds
\* _socket_lock.
C2_OneWriterAtATime ==
    /\ Cardinality({t \in Threads : ppc[t] = "in_send_string"}) <= 1
    /\ \A t \in Threads : ppc[t] = "in_send_string" => socket_lock = t

\* one thread is writing while another waits for the lock to write
C2_Witness ==
    \E t, u \in Threads : ppc[t] = "in_send_string" /\ ppc[u] = "send_acquire"

\* C3: no write is in progress once stop_listening has set _shutting_down,
\* and while a write is in progress no stop_listening is past its acquire
\* and the socket written to is not closed.
C3_NoWriteAfterShutdown ==
    \A t \in Threads :
        ppc[t] = "in_send_string" =>
            /\ ~shutting_down
            /\ pubSock[pub_zmq_socket] # "closed"
            /\ \A u \in Threads : ppc[u] \notin {"stop_flag", "stop_close", "stop_release"}

\* a publish that passed the ready test finds shutting_down under the lock
\* and returns without writing, the socket being closed
C3_Witness ==
    \E t \in Threads :
        /\ ppc[t] = "send_release"
        /\ shutting_down
        /\ pubSock[pub_zmq_socket] = "closed"

\* C4: stop_listening clears the flag, joins, then closes: past the flag the
\* flag is clear, at the close the worker is not alive, and whenever the
\* socket the attribute names or the socket registered with the poller is
\* closed the worker is not alive.
C4_CloseAfterJoin ==
    /\ cpc \in {"stop_join", "stop_close"} => ~continue
    /\ cpc = "stop_close" => ~WorkerAlive
    /\ WorkerAlive =>
          /\ req_zmq_socket # NoSocket
          /\ reqSock[req_zmq_socket] # "closed"
          /\ wpc \in {"poll", "recv"} => reqSock[wsock] # "closed"

\* the worker served a request, left on the cleared flag, and the socket
\* was closed after it
C4_Witness ==
    /\ reqSent >= 1
    /\ workerExit = "flag"
    /\ reqSock[req_zmq_socket] = "closed"

\* the message catalogue: the number of int parameters of each request id
CatalogueArity(id) ==
    IF id \in {"REQ_SET_BRIGHTNESS", "REQ_GET_PERIPHERAL_ENABLED",
               "REQ_SET_SCREEN_BLANKING_TIMEOUT"}
    THEN 1 ELSE 0

\* the request string does not decode, or names a supported id with a wrong
\* number of parameters or with a parameter that is no number
MalformedRequest(str) ==
    \/ Head(str) \in NonNumerals
    \/ /\ Head(str) \in RequestIds
       /\ \/ Len(Tail(str)) # CatalogueArity(Head(str))
          \/ \E i \in 1..Len(Tail(str)) : Tail(str)[i] \in NonNumerals

\* C5: a request that does not decode, or whose parameters do not match the
\* schema of its supported id, is answered RSP_ERR_MALFORMED without
\* parameters and no callback is invoked.
C5_MalformedNoCallback ==
    (wpc = "send" /\ MalformedRequest(request)) =>
        /\ response = FromParts("RSP_ERR_MALFORMED", <<>>)
        /\ cbCalls = <<>>

\* SET_BRIGHTNESS with the parameter "abc"
C5_Witness ==
    /\ wpc = "send"
    /\ request = <<"REQ_SET_BRIGHTNESS", "abc">>
    /\ response.id = "RSP_ERR_MALFORMED"

\* the invoked callback raised, or returned a value the branch cannot use
\* (the battery state must be four values)
CallbackFailed ==
    \/ cbOutcome.kind = "raise"
    \/ /\ cbCalls[1].name = "_on_request_battery_state"
       /\ ~(cbOutcome.shape = "tuple" /\ Len(cbOutcome.vals) = 4)

\* C6: when the callback invoked for a well-formed request raises, or
\* returns a value the responder cannot use, the reply is RSP_ERR_SERVER.
C6_CallbackFailureIsServerError ==
    (wpc = "send" /\ cbCalls # <<>> /\ CallbackFailed) =>
        response = FromParts("RSP_ERR_SERVER", <<>>)

\* C7: a request that decodes to an id that is no supported request id is
\* answered RSP_ERR_UNSUPPORTED without parameters, whatever its parameters,
\* with no callback invoked and no parameter validation; an error response
\* carries no parameters.
C7_UnsupportedId ==
    /\ (wpc = "send" /\ Head(request) \notin NonNumerals
                     /\ Head(request) \notin RequestIds) =>
          /\ response = FromParts("RSP_ERR_UNSUPPORTED", <<>>)
          /\ cbCalls = <<>>
          /\ ~validated
    /\ (wpc = "send" /\ response.id \in ErrorResponseIds) => response.params = <<>>

\* an unknown id with a parameter that is no number
C7_Witness ==
    /\ wpc = "send"
    /\ request = <<"9999", "abc">>
    /\ response.id = "RSP_ERR_UNSUPPORTED"

\* C8: while no start_listening has succeeded, or while emit_messages is
\* false, no publish_* call is writing to the socket.
C8_NoWriteUnlessStartedAndEmitting ==
    \A t \in Threads : ppc[t] = "in_send_string" => (pubStarted /\ emit_messages)

\* thread t takes a step of a stop_listening call
PubStopStep(t) ==
    /\ ppc[t] \in {"stop_acquire", "stop_flag", "stop_close", "stop_release"}
    /\ ppc'[t] # ppc[t]

\* C9: stop_listening never raises and changes neither emit_messages nor the
\* wire; on a publisher whose socket is None its steps touch no socket; on a
\* publisher already stopped, with its socket closed, its steps leave
\* shutting_down and the sockets as they are; it returns with shutting_down
\* set and the lock free; and it finds the lock free whenever no other call
\* is in progress.
C9_StopAlwaysSafe ==
    /\ [](\A t \in Threads :
            (ppc[t] = "stop_acquire" /\ \A u \in Threads \ {t} : ppc[u] = "idle")
                => socket_lock = LockFree)
    /\ [][\A t \in Threads : PubStopStep(t) =>
            /\ pubRaised' = pubRaised
            /\ emit_messages' = emit_messages
            /\ pubWire' = pubWire
            /\ pub_zmq_socket' = pub_zmq_socket
            /\ pub_zmq_socket = NoSocket => pubSock' = pubSock
            /\ (pubStopped /\ pub_zmq_socket # NoSocket
                  /\ pubSock[pub_zmq_socket] = "closed") =>
                   (shutting_down' /\ pubSock' = pubSock)
            /\ ppc'[t] = "idle" => (shutting_down' /\ socket_lock' = LockFree)
         ]_vars

\* a second stop_listening is past its close on a publisher that had been
\* started and stopped
C9_Witness ==
    \E t \in Threads :
        /\ ppc[t] = "stop_release"
        /\ pubStopped
        /\ pubStarted
        /\ pubSock[pub_zmq_socket] = "closed"

\* start_listening calls that have reached the creation of their socket
ReqStartsRun == Cardinality({s \in ReqSocketIds : reqSock[s] # "absent"})

\* C10: on a RequestServer on which start_listening has run, a
\* stop_listening call ends by returning; a stop_listening that follows a
\* returned stop_listening finds the worker not alive at its join and the
\* socket closed at its close, and leaves it closed; and a stop_listening
\* that has begun ends.
C10_StopTwice ==
    /\ [][(cpc \in {"stop_flag", "stop_join", "stop_close"}
             /\ req_zmq_socket # NoSocket /\ cpc' = "idle") =>
                cret' = "stop:returned"]_vars
    /\ [][(cpc = "stop_close" /\ cret = "stop:returned") =>
                (reqSock[req_zmq_socket] = "closed" /\ reqSock' = reqSock)]_vars
    /\ []((cpc = "stop_join" /\ cret = "stop:returned") => ~WorkerAlive)
    /\ [](((cpc = "stop_flag" /\ req_zmq_socket # NoSocket /\ ReqStartsRun = 1)
             => <>(cpc = "idle" /\ cret = "stop:returned")))

\* the second of two stop_listening calls is at its close, after a worker
\* that had been started
C10_Witness ==
    /\ cpc = "stop_close"
    /\ cret = "stop:returned"
    /\ thread_started
    /\ reqSent >= 1

\* C11: the worker loop never ends because of a request: a worker that has
\* ended has ended on the cleared continue flag.  Stated for a server on
\* which start_listening has run once, so that every request the worker was
\* handed came through the one bound socket.
C11_ExitOnlyOnFlag ==
    (wpc = "exited" /\ ReqStartsRun = 1) => workerExit = "flag"

\* C12: a send_string of the worker that fails (the step leaves "send"
\* without a reply having gone out) is swallowed: the worker is back at the
\* top of its loop.
C12_SendFailureSwallowed ==
    [][(wpc = "send" /\ wpc' # "send" /\ reqSent' = reqSent) => wpc' = "while"]_vars

\* the positions of a call at which its thread holds _socket_lock
InsideLock ==
    {"start_create", "start_bind", "start_return_true", "start_return_false",
     "stop_flag", "stop_close", "stop_release",
     "send_shutdown_check", "in_send_string", "send_except", "send_release"}

\* C13: a write that failed in _send_message goes on to the release of the
\* lock and the return, with nothing raised to the caller and nothing
\* written (no second write); the return leaves the lock free; and the lock
\* is held only by a thread inside the locked part of a start_listening,
\* stop_listening or _send_message call, so it is free when no call is in
\* progress.
C13_SendFailureReleasesLock ==
    /\ [](socket_lock # LockFree => ppc[socket_lock] \in InsideLock)
    /\ []((\A t \in Threads : ppc[t] = "idle") => socket_lock = LockFree)
    /\ [][\A t \in Threads :
            (ppc[t] = "send_except" /\ ppc'[t] # ppc[t]) =>
                /\ ppc'[t] = "send_release"
                /\ pubRaised' = pubRaised
                /\ pubWire' = pubWire]_vars
    /\ [][\A t \in Threads :
            (ppc[t] = "send_release" /\ ppc'[t] # ppc[t]) =>
                /\ ppc'[t] = "idle"
                /\ socket_lock' = LockFree
                /\ pubRaised' = pubRaised
                /\ pubWire' = pubWire]_vars

\* a write has failed under the lock while another thread waits for the
\* lock in stop_listening
C13_Witness ==
    \E t, u \in Threads :
        /\ ppc[t] = "send_except"
        /\ socket_lock = t
        /\ ppc[u] = "stop_acquire"

\* the message catalogue: request id, the callback of the request, response
\* id
Catalogue ==
    {<<"REQ_PING", "none", "RSP_PING">>,
     <<"REQ_GET_DEVICE_ID", "_on_request_get_device_id", "RSP_GET_DEVICE_ID">>,
     <<"REQ_GET_BRIGHTNESS", "_on_request_get_brightness", "RSP_GET_BRIGHTNESS">>,
     <<"REQ_SET_BRIGHTNESS", "_on_request_set_brightness", "RSP_SET_BRIGHTNESS">>,
     <<"REQ_INCREMENT_BRIGHTNESS", "_on_request_increment_brightness",
       "RSP_INCREMENT_BRIGHTNESS">>,
     <<"REQ_DECREMENT_BRIGHTNESS", "_on_request_decrement_brightness",
       "RSP_DECREMENT_BRIGHTNESS">>,
     <<"REQ_BLANK_SCREEN", "_on_request_blank_screen", "RSP_BLANK_SCREEN">>,
     <<"REQ_UNBLANK_SCREEN", "_on_request_unblank_screen", "RSP_UNBLANK_SCREEN">>,
     <<"REQ_GET_BATTERY_STATE", "_on_request_battery_state",
       "RSP_GET_BATTERY_STATE">>,
     <<"REQ_GET_PERIPHERAL_ENABLED", "_on_request_get_peripheral_enabled",
       "RSP_GET_PERIPHERAL_ENABLED">>,
     <<"REQ_GET_SCREEN_BLANKING_TIMEOUT", "_on_request_get_screen_blanking_timeout",
       "RSP_GET_SCREEN_BLANKING_TIMEOUT">>,
     <<"REQ_SET_SCREEN_BLANKING_TIMEOUT", "_on_request_set_screen_blanking_timeout",
       "RSP_SET_SCREEN_BLANKING_TIMEOUT">>}

CatalogueEntry(id) == CHOOSE e \in Catalogue : e[1] = id

\* the number a parameter token is the decimal writing of
NumeralValue(tok) == CASE tok = "50" -> 50 [] tok = "7" -> 7

\* the request names a supported id and its parameters match the schema
WellFormedRequest(str) ==
    /\ str # NoRequest
    /\ Head(str) \in RequestIds
    /\ Len(Tail(str)) = CatalogueArity(Head(str))
    /\ \A i \in 1..Len(Tail(str)) : Tail(str)[i] \in ParamNumerals

\* the callback returned, and returned what its signature promises: one
\* value from a getter, four from the battery state, a bool from the
\* peripheral query
ReturnedAsDeclared(id, o) ==
    /\ o.kind = "return"
    /\ id \in {"REQ_GET_DEVICE_ID", "REQ_GET_BRIGHTNESS",
               "REQ_GET_SCREEN_BLANKING_TIMEOUT"} => o.shape = "scalar"
    /\ id = "REQ_GET_BATTERY_STATE" => (o.shape = "tuple" /\ Len(o.vals) = 4)
    /\ id = "REQ_GET_PERIPHERAL_ENABLED" => o.shape \in {"true", "false"}

\* the parameters of the reply to request id when its callback returned o
CatalogueResult(id, o) ==
    CASE id \in {"REQ_GET_DEVICE_ID", "REQ_GET_BRIGHTNESS",
                 "REQ_GET_SCREEN_BLANKING_TIMEOUT", "REQ_GET_BATTERY_STATE"} -> o.vals
      [] id = "REQ_GET_PERIPHERAL_ENABLED" ->
             <<IF o.shape = "true" THEN 1 ELSE 0>>
      [] OTHER -> <<>>

\* C14: for a well-formed request of a supported id whose callback returns
\* what it declares, the callback of the catalogue is the one invocation
\* made (none for PING), with the request's parameter as an int where the
\* schema has one, and the reply is the response id of the catalogue with
\* the values the callback returned, in order (none for the requests that
\* return nothing).
C14_SuccessReply ==
    (wpc = "send" /\ WellFormedRequest(request)
                  /\ ReturnedAsDeclared(Head(request), cbOutcome)) =>
        LET id == Head(request)
            e == CatalogueEntry(id)
        IN  /\ cbCalls =
                  IF e[2] = "none" THEN <<>>
                  ELSE <<[name |-> e[2],
                          args |-> IF CatalogueArity(id) = 1
                                   THEN <<NumeralValue(request[2])>> ELSE <<>>]>>
            /\ response = FromParts(e[3], CatalogueResult(id, cbOutcome))

\* SET_BRIGHTNESS [50] has invoked the set-brightness callback with 50
C14_Witness ==
    /\ wpc = "send"
    /\ request = <<"REQ_SET_BRIGHTNESS", "50">>
    /\ cbCalls = <<[name |-> "_on_request_set_brightness", args |-> <<50>>]>>
    /\ response = FromParts("RSP_SET_BRIGHTNESS", <<>>)

\* thread t calls method with a str, which is neither an int nor a bool,
\* and the call raises TypeError with nothing else of the publisher changed
RejectsStr(t, method) ==
    PublishCallWith(t, method, "str") =>
        /\ pubRaised' = "TypeError"
        /\ UNCHANGED <<emit_messages, socket_lock, shutting_down, pub_zmq_socket,
                       pubSock, ppc, pmsg, pubWire, pubStarted, pubStopped>>

C16_BindFailureStartsNothing ==
    /\ [][(cpc = "start_bind" /\ cpc' # cpc
             /\ reqSock'[req_zmq_socket] # "bound") =>
                /\ cpc' = "idle"
                /\ cret' = "start:returned"
                /\ UNCHANGED <<continue, thread_started, wpc, reqRecv>>]_vars
    /\ [](cpc \in {"start_flag", "start_thread"} =>
             reqSock[req_zmq_socket] = "bound")
    /\ [](~thread_started => (wpc = "not_started" /\ reqRecv = 0))

\* start_listening has returned from a failed bind on a server that has no
\* worker: the flag is clear and the socket is open and unbound
C16_Witness ==
    /\ cpc = "idle"
    /\ cret = "start:returned"
    /\ ~thread_started
    /\ ~continue
    /\ req_zmq_socket # NoSocket
    /\ reqSock[req_zmq_socket] = "open"

\* C17: a stop_listening that has cleared the continue flag of a server
\* whose socket was opened is followed by the worker's exit and by the
\* return of stop_listening with the socket closed.
C17_StopEnds ==
    (cpc = "stop_join" /\ req_zmq_socket # NoSocket)
        ~> (cpc = "idle" /\ cret = "stop:returned"
              /\ ~WorkerAlive /\ reqSock[req_zmq_socket] = "closed")

\* C18: once a stop_listening call has returned, the socket of the
\* publisher is not bound and open again, and nothing more is written.
C18_NoWayBackToListening ==
    /\ [](pubStopped =>
            ~(pub_zmq_socket # NoSocket /\ pubSock[pub_zmq_socket] = "bound"))
    /\ [][pubStopped => pubWire' = pubWire]_vars

\* C19: a stop_listening step on a server whose socket was never opened
\* does not end the call with an exception and leaves every socket as it
\* is.
C19_StopNeverStartedIsNoOp ==
    [][(cpc \in {"stop_flag", "stop_join", "stop_close"}
          /\ req_zmq_socket = NoSocket) =>
            /\ cret' # "stop:AttributeError"
            /\ reqSock' = reqSock]_vars

\* C20: the worker polls, receives and sends only on a bound socket (a
\* start_listening call does not change the socket a running worker uses),
\* and no start_listening call raises.
C20_OneSocketOneWorker ==
    /\ wpc = "poll" => reqSock[wsock] = "bound"
    /\ wpc \in {"recv", "send"} => reqSock[req_zmq_socket] = "bound"
    /\ cret # "start:RuntimeError"

====
